---- MODULE Spec2Model ----
(***************************************************************************)
(* Model of the data processing script src/main.go: the dispatcher of      *)
(* main and the three operations analyzeData, transformData and            *)
(* aggregateData with their helpers.                                       *)
(*                                                                         *)
(* Numbers.  A float64 dataset value is modelled in exact fixed-point      *)
(* arithmetic: the integer v stands for the number v / Unit.  A value      *)
(* handed to roundToTwo is the rational num / den, and 0 / 0 is NaN.  The  *)
(* value returned by roundToTwo is a record whose field hundredths is the  *)
(* result multiplied by 100.  Binary representation error of float64 is    *)
(* not modelled.                                                           *)
(***************************************************************************)
EXTENDS Integers, Sequences, FiniteSets, TLC

\* ---------------------------------------------------------------- bounds
MaxLen == 3
MaxBatch == 3

\* v stands for v / Unit (three decimals)
Unit == 1000

\* -1, 25, 25.004, 60, 100, 1500
Values == {0 - 1000, 25000, 25004, 60000, 100000, 1500000}

RECURSIVE SeqsUpTo(_)
SeqsUpTo(n) ==
    IF n = 0 THEN {<< >>}
    ELSE LET shorter == SeqsUpTo(n - 1)
         IN  shorter \cup {Append(s, v) : s \in {t \in shorter : Len(t) = n - 1}, v \in Values}

Datasets == SeqsUpTo(MaxLen)

BatchSizes == (0 - 1)..MaxBatch

Operations == {"analyze", "transform", "aggregate", "report"}

\* outcome of the conversion int(NaN), which the language leaves to the
\* implementation: amd64 yields the smallest int64, arm64 yields 0
Platforms == {"amd64", "arm64"}

VARIABLES
    rawData,      \* contents of the array behind main's rawData slice
    batchSize,    \* config batch_size
    operation,    \* config operation
    platform,     \* the build the script runs on
    pc,           \* position of the script
    i,            \* transformData: loop variable
    transformed,  \* transformData: running transformed sequence
    batches,      \* transformData: batch results so far
    batchSlices,  \* transformData: the slices data[i:end] handed to processBatch
    result,       \* value returned by the operation
    panicked,     \* runtime panic message, "" when none
    run,          \* 1 in the first run of the script, 2 in the second
    first         \* value returned by the operation in the first run

vars == <<rawData, batchSize, operation, platform, pc, i, transformed, batches,
          batchSlices, result, panicked, run, first>>

NoResult == [type |-> "none"]

\* ------------------------------------------------------- numeric helpers

\* Go's int(x) of the rational n / d, d > 0: truncation toward zero
Trunc(n, d) == IF n >= 0 THEN n \div d ELSE 0 - ((0 - n) \div d)

Finite(h) == [kind |-> "finite", hundredths |-> h]

\* float64(int(NaN + 0.5)) / 100
RoundOfNaN ==
    IF platform = "arm64" THEN Finite(0)
    ELSE [kind |-> "MinInt64/100", hundredths |-> 0]

\* roundToTwo(num / den): int(value*100 + 0.5) / 100
roundToTwo(num, den) ==
    IF den = 0 THEN RoundOfNaN
    ELSE Finite(Trunc(200 * num + den, 2 * den))

RECURSIVE SumSeq(_)
SumSeq(s) == IF Len(s) = 0 THEN 0 ELSE s[1] + SumSeq(Tail(s))

RECURSIVE Insert(_, _)
Insert(x, s) ==
    IF Len(s) = 0 THEN <<x>>
    ELSE IF x <= s[1] THEN <<x>> \o s
    ELSE <<s[1]>> \o Insert(x, Tail(s))

\* sort.Float64s: ascending order
RECURSIVE SortFloat64s(_)
SortFloat64s(s) == IF Len(s) = 0 THEN << >> ELSE Insert(s[1], SortFloat64s(Tail(s)))

\* calculateMedian: the median as the rational num / den
calculateMedian(sortedData) ==
    LET n == Len(sortedData)
    IN  IF n % 2 = 0
        THEN [num |-> sortedData[n \div 2] + sortedData[n \div 2 + 1], den |-> 2 * Unit]
        ELSE [num |-> sortedData[n \div 2 + 1], den |-> Unit]

\* ----------------------------------------------------------- analyzeData

\* make + copy + sort.Float64s: contents of the two arrays afterwards
sortedCopy_inPlace(data) == [sortedData |-> SortFloat64s(data), data |-> SortFloat64s(data)]

sortedCopy(data) == [sortedData |-> SortFloat64s(data), data |-> data]

analysis(data) ==
    LET arrays == sortedCopy(data)
        sortedData == arrays.sortedData
        n == Len(data)
        sum == SumSeq(arrays.data)
        min == sortedData[1]
        max == sortedData[n]
        median == calculateMedian(sortedData)
    IN  [result |->
            [type |-> "analysis",
             count |-> n,
             sum |-> roundToTwo(sum, Unit),
             mean |-> roundToTwo(sum, Unit * n),
             median |-> roundToTwo(median.num, median.den),
             min |-> min,
             max |-> max,
             range |-> max - min,
             percentile_25 |-> sortedData[n \div 4 + 1],
             percentile_75 |-> sortedData[(3 * n) \div 4 + 1]],
         data |-> arrays.data]

analyzeData_guardOne(data) ==
    IF Len(data) <= 1
    THEN [result |-> [error |-> "no data to analyze"], data |-> data]
    ELSE analysis(data)

\* the returned map and the contents of the caller's array after the call
analyzeData(data) ==
    IF Len(data) = 0
    THEN [result |-> [error |-> "no data to analyze"], data |-> data]
    ELSE analysis(data)

\* --------------------------------------------------------- transformData

processBatch(batch, batchNum) ==
    LET sum == SumSeq(batch)
    IN  [batch_number |-> batchNum,
         size |-> Len(batch),
         sum |-> roundToTwo(sum, Unit),
         average |-> roundToTwo(sum, Unit * Len(batch))]

\* end := i + batchSize, clamped to len(data)
batchEnd(idx, size, n) == IF idx + size > n THEN n ELSE idx + size

batchNumber_zeroBased(idx, size) == Trunc(idx, size)

\* i/batchSize + 1
batchNumber(idx, size) == Trunc(idx, size) + 1

\* (value / 1000.0) * 100.0, clamped to 100, rounded
normalize(value) ==
    IF value * 100 > 100 * 1000 * Unit
    THEN roundToTwo(100, 1)
    ELSE roundToTwo(value * 100, 1000 * Unit)

\* ---------------------------------------------------------- aggregateData

Keys == {"0-25", "26-50", "51-75", "76-100", "100+"}

RECURSIVE PermsOf(_)
PermsOf(S) ==
    IF S = {} THEN {<< >>}
    ELSE UNION {{<<x>> \o p : p \in PermsOf(S \ {x})} : x \in S}

\* the iteration orders of a range over the ranges map
Orders == PermsOf(Keys)

bucketOf_strict(value) ==
    IF value < 25 * Unit THEN "0-25"
    ELSE IF value <= 50 * Unit THEN "26-50"
    ELSE IF value <= 75 * Unit THEN "51-75"
    ELSE IF value <= 100 * Unit THEN "76-100"
    ELSE "100+"

bucketOf(value) ==
    IF value <= 25 * Unit THEN "0-25"
    ELSE IF value <= 50 * Unit THEN "26-50"
    ELSE IF value <= 75 * Unit THEN "51-75"
    ELSE IF value <= 100 * Unit THEN "76-100"
    ELSE "100+"

RECURSIVE tally(_, _, _)
tally(data, k, ranges) ==
    IF k > Len(data) THEN ranges
    ELSE tally(data, k + 1, [ranges EXCEPT ![bucketOf(data[k])] = @ + 1])

RECURSIVE largestFrom(_, _, _, _)
largestFrom(ranges, order, k, acc) ==
    IF k > Len(order) THEN acc
    ELSE LET key == order[k]
             count == ranges[key]
         IN  largestFrom(ranges, order, k + 1,
                         IF count > acc.maxCount
                         THEN [maxCount |-> count, maxKey |-> key]
                         ELSE acc)

findLargestGroup(ranges, order) ==
    largestFrom(ranges, order, 1, [maxCount |-> 0, maxKey |-> ""]).maxKey

\* the maps the call can return, one for each iteration order of the range
\* over the ranges map in findLargestGroup
aggregateData(data) ==
    LET ranges == tally(data, 1, [key \in Keys |-> 0])
        total == Len(data)
        percentages == [key \in Keys |-> roundToTwo(ranges[key] * 100, total)]
    IN  {[type |-> "aggregation",
          total_count |-> total,
          ranges |-> ranges,
          percentages |-> percentages,
          largest_group |-> findLargestGroup(ranges, order)] : order \in Orders}

\* ---------------------------------------------------------------- actions

Init ==
    /\ rawData \in Datasets
    /\ batchSize \in BatchSizes
    /\ operation \in Operations
    /\ platform \in Platforms
    /\ pc = "main"
    /\ i = 0
    /\ transformed = << >>
    /\ batches = << >>
    /\ batchSlices = << >>
    /\ result = NoResult
    /\ panicked = ""
    /\ run = 1
    /\ first = NoResult

\* main: switch operation
Dispatch ==
    /\ pc = "main"
    /\ pc' = CASE operation = "analyze" -> "analyzeData"
               [] operation = "transform" -> "transformData"
               [] operation = "aggregate" -> "aggregateData"
               [] OTHER -> "analyzeData"
    /\ UNCHANGED <<rawData, batchSize, operation, platform, i, transformed, batches,
                   batchSlices, result, panicked, run, first>>

AnalyzeData ==
    /\ pc = "analyzeData"
    /\ LET r == analyzeData(rawData)
       IN  /\ result' = r.result
           /\ rawData' = r.data
    /\ pc' = "done"
    /\ UNCHANGED <<batchSize, operation, platform, i, transformed, batches,
                   batchSlices, panicked, run, first>>

TransformEnter ==
    /\ pc = "transformData"
    /\ i' = 0
    /\ transformed' = << >>
    /\ batches' = << >>
    /\ batchSlices' = << >>
    /\ pc' = "transformData_loop"
    /\ UNCHANGED <<rawData, batchSize, operation, platform, result, panicked, run, first>>

\* one iteration of the batch loop
TransformBatch ==
    /\ pc = "transformData_loop"
    /\ i < Len(rawData)
    /\ LET end == batchEnd(i, batchSize, Len(rawData))
       IN  IF end < i \/ end > Len(rawData)
           THEN /\ pc' = "panic"
                /\ panicked' = "slice bounds out of range"
                /\ UNCHANGED <<i, transformed, batches, batchSlices>>
           ELSE IF batchSize = 0
           THEN /\ pc' = "panic"
                /\ panicked' = "integer divide by zero"
                /\ UNCHANGED <<i, transformed, batches, batchSlices>>
           ELSE LET batch == SubSeq(rawData, i + 1, end)
                IN  /\ batches' = Append(batches, processBatch(batch, batchNumber(i, batchSize)))
                    /\ batchSlices' = Append(batchSlices, batch)
                    /\ transformed' = transformed \o [k \in 1..Len(batch) |-> normalize(batch[k])]
                    /\ i' = i + batchSize
                    /\ UNCHANGED <<pc, panicked>>
    /\ UNCHANGED <<rawData, batchSize, operation, platform, result, run, first>>

TransformReturn ==
    /\ pc = "transformData_loop"
    /\ i >= Len(rawData)
    /\ result' = [type |-> "transformation",
                  original_count |-> Len(rawData),
                  transformed |-> transformed,
                  batch_results |-> batches,
                  batches_processed |-> Len(batches)]
    /\ pc' = "done"
    /\ UNCHANGED <<rawData, batchSize, operation, platform, i, transformed, batches,
                   batchSlices, panicked, run, first>>

TransformData == TransformEnter \/ TransformBatch \/ TransformReturn

AggregateData ==
    /\ pc = "aggregateData"
    /\ result' \in aggregateData(rawData)
    /\ pc' = "done"
    /\ UNCHANGED <<rawData, batchSize, operation, platform, i, transformed, batches,
                   batchSlices, panicked, run, first>>

\* the script is started a second time on the same configuration
Rerun ==
    /\ pc = "done"
    /\ run = 1
    /\ first' = result
    /\ run' = 2
    /\ result' = NoResult
    /\ pc' = "main"
    /\ UNCHANGED <<rawData, batchSize, operation, platform, i, transformed, batches,
                   batchSlices, panicked>>

Next == Dispatch \/ AnalyzeData \/ TransformData \/ AggregateData \/ Rerun

Spec == Init /\ [][Next]_vars

FairSpec == Spec /\ WF_vars(TransformData)

\* ----------------------------------------------------------- properties

Analyzing == operation \notin {"transform", "aggregate"}

Ceil(n, d) == (n + d - 1) \div d

RECURSIVE Flatten(_)
Flatten(ss) == IF Len(ss) = 0 THEN << >> ELSE ss[1] \o Flatten(Tail(ss))

\* round-half-up of the rational num / den, den > 0, to two decimals
RoundHalfUp(num, den) == (200 * num + den) \div (2 * den)

InBucket(key, v) ==
    CASE key = "0-25" -> v <= 25 * Unit
      [] key = "26-50" -> 25 * Unit < v /\ v <= 50 * Unit
      [] key = "51-75" -> 50 * Unit < v /\ v <= 75 * Unit
      [] key = "76-100" -> 75 * Unit < v /\ v <= 100 * Unit
      [] key = "100+" -> v > 100 * Unit

RECURSIVE SumOver(_, _)
SumOver(f, S) ==
    IF S = {} THEN 0
    ELSE LET x == CHOOSE y \in S : TRUE IN f[x] + SumOver(f, S \ {x})

BatchingHolds ==
    (operation = "transform" /\ batchSize >= 1) =>
        /\ pc # "panic"
        /\ pc = "done" =>
            /\ result.batches_processed = Ceil(Len(rawData), batchSize)
            /\ Len(result.batch_results) = result.batches_processed
            /\ Len(batchSlices) = result.batches_processed
            /\ \A k \in 1..Len(result.batch_results) :
                  /\ result.batch_results[k].batch_number = k
                  /\ result.batch_results[k].size = Len(batchSlices[k])
                  /\ Len(batchSlices[k]) >= 1
                  /\ Len(batchSlices[k]) <= batchSize
                  /\ k < Len(batchSlices) => Len(batchSlices[k]) = batchSize
            /\ Flatten(batchSlices) = rawData

\* C1: with batch_size >= 1 the batch loop of transformData terminates without
\* a panic having produced ceil(n / batch_size) batches numbered 1, 2, ... in
\* dataset order, each non-empty and no longer than batch_size, only the last
\* possibly shorter, whose concatenation is the dataset.
C1_Batching ==
    /\ []BatchingHolds
    /\ (pc = "transformData" /\ batchSize >= 1) ~> (pc = "done")

C1_Witness ==
    /\ pc = "done" /\ operation = "transform" /\ batchSize = 2
    /\ Len(rawData) = 3 /\ Len(batchSlices) = 2 /\ Len(batchSlices[2]) = 1

\* C2: transformData with batch_size < 1 is rejected with a validation error
\* before any batch is processed, and never panics.
C2_Rejected ==
    (operation = "transform" /\ batchSize < 1) =>
        /\ pc # "panic"
        /\ pc = "done" => ("error" \in DOMAIN result /\ batches = << >>)

\* C3: aggregateData counts each value in exactly one of the five buckets, by
\* the intervals of the bucket labels, and the bucket counts add up to
\* total_count, which is the dataset length.
C3_Partition ==
    (pc = "done" /\ operation = "aggregate") =>
        /\ \A k \in 1..Len(rawData) :
              Cardinality({key \in Keys : InBucket(key, rawData[k])}) = 1
        /\ \A key \in Keys :
              result.ranges[key] =
                  Cardinality({k \in 1..Len(rawData) : InBucket(key, rawData[k])})
        /\ SumOver(result.ranges, Keys) = result.total_count
        /\ result.total_count = Len(rawData)

C3_Witness ==
    /\ pc = "done" /\ operation = "aggregate"
    /\ \E k \in 1..Len(rawData) : rawData[k] = 25 * Unit
    /\ result.ranges["0-25"] = 1 /\ result.ranges["26-50"] = 1 /\ result.ranges["100+"] = 1

\* C4: aggregateData of the empty dataset returns total_count 0, every bucket
\* count 0 and a percentage of zero for every bucket (or an error state).
C4_EmptyAggregate ==
    (pc = "done" /\ operation = "aggregate" /\ rawData = << >>) =>
        /\ panicked = ""
        /\ result.total_count = 0
        /\ \A key \in Keys : result.ranges[key] = 0
        /\ \/ "error" \in DOMAIN result
           \/ \A key \in Keys : result.percentages[key] = Finite(0)

\* C5: for a non-empty dataset the values analyzeData returns under min,
\* median and max satisfy min <= median <= max, and range is max - min.
C5_MedianBetween ==
    (pc = "done" /\ Analyzing /\ Len(rawData) > 0) =>
        /\ result.median.kind = "finite"
        /\ result.min * 100 <= result.median.hundredths * Unit
        /\ result.median.hundredths * Unit <= result.max * 100
        /\ result.range = result.max - result.min

\* C6: analyzeData of the empty dataset returns, without failing, a result
\* with the error field only; of a non-empty dataset, a result tagged
\* "analysis" with no error field.
C6_ErrorField ==
    (pc = "done" /\ Analyzing) =>
        /\ panicked = ""
        /\ IF Len(rawData) = 0
           THEN DOMAIN result = {"error"} /\ result.error = "no data to analyze"
           ELSE "error" \notin DOMAIN result /\ result.type = "analysis"

C6_Witness ==
    /\ pc = "done" /\ Analyzing /\ rawData = << >>
    /\ result = [error |-> "no data to analyze"]

\* C7: analyzeData leaves the caller's dataset as it was, element by element.
C7_NoMutation == [][pc = "analyzeData" => rawData' = rawData]_vars

C7_Witness ==
    /\ pc = "done" /\ Analyzing
    /\ Len(rawData) = 3 /\ rawData[1] > rawData[2] /\ rawData[2] > rawData[3]
    /\ result.type = "analysis" /\ result.min = rawData[3]

\* C8: with batch_size >= 1 the transformed sequence has one entry for each
\* dataset value, in dataset order; the entry of a value v >= 0 is in [0,100]
\* and the entry of a value v <= 1000 is round(v/10, 2).
C8_Normalized ==
    (pc = "done" /\ operation = "transform" /\ batchSize >= 1) =>
        /\ Len(result.transformed) = Len(rawData)
        /\ \A k \in 1..Len(rawData) :
              LET v == rawData[k]
                  out == result.transformed[k]
              IN  /\ v >= 0 => (out.kind = "finite" /\ out.hundredths >= 0
                                /\ out.hundredths <= 100 * 100)
                  /\ v <= 1000 * Unit => out = Finite(RoundHalfUp(v, 10 * Unit))

\* C9: a second run of the same operation on the same dataset and batch_size
\* returns the result of the first run, field by field.
C9_Deterministic == (run = 2 /\ pc = "done") => result = first

\* C10: largest_group is one of the five bucket labels and no bucket has a
\* larger count, the empty dataset included.
C10_LargestGroup ==
    (pc = "done" /\ operation = "aggregate") =>
        /\ result.largest_group \in Keys
        /\ \A key \in Keys : result.ranges[result.largest_group] >= result.ranges[key]

====
